---- MODULE Spec2Model ----
(***************************************************************************)
(* Model of the Mendoza Law Firm API gateway (src/app.py): four tables     *)
(* (clientes, casos, pagos, documentos) behind SQLAlchemy/SQLite, the      *)
(* in-memory S3Service mock, and the request handlers that write and       *)
(* report on them.  Handlers run concurrently (FastAPI thread pool / event *)
(* loop); every access to the database, the blob store or the wall clock   *)
(* is one step of a handler.                                               *)
(*                                                                         *)
(* Strings that the code formats or parses (references, receipt numbers,   *)
(* report dates) are sequences of one-character strings; opaque strings    *)
(* (emails, lawyer names) are TLA+ strings.  A datetime is the tuple       *)
(* <<year, month, day, hour, minute, second, microsecond>>.                *)
(***************************************************************************)
EXTENDS Integers, Sequences, FiniteSets, TLC

VARIABLES clientes, casos, pagos, documentos, storage, now, pc, req, resp

vars == <<clientes, casos, pagos, documentos, storage, now, pc, req, resp>>
db == <<clientes, casos, pagos, documentos>>

-----------------------------------------------------------------------------
(* Text formatting: int -> decimal digits, strftime fields *)

DigitChars == <<"0", "1", "2", "3", "4", "5", "6", "7", "8", "9">>

Digit(d) == DigitChars[d + 1]

RECURSIVE IntStr(_)
IntStr(n) == IF n < 10 THEN <<Digit(n)>> ELSE IntStr(n \div 10) \o <<Digit(n % 10)>>

RECURSIVE ZeroPad(_, _)
ZeroPad(s, w) == IF Len(s) >= w THEN s ELSE ZeroPad(<<"0">> \o s, w)

\* Variant that prints the fields without zero padding
StrftimeSinRelleno(t) ==
    IntStr(t[1]) \o IntStr(t[2]) \o IntStr(t[3]) \o IntStr(t[4]) \o IntStr(t[5]) \o IntStr(t[6])

\* datetime.strftime("%Y%m%d%H%M%S"): zero-padded fields, microseconds dropped
Strftime(t) ==
    ZeroPad(IntStr(t[1]), 4) \o ZeroPad(IntStr(t[2]), 2) \o ZeroPad(IntStr(t[3]), 2)
      \o ZeroPad(IntStr(t[4]), 2) \o ZeroPad(IntStr(t[5]), 2) \o ZeroPad(IntStr(t[6]), 2)

\* Variant that leaves the client id out of the reference
CasoRefSinCliente(cliente_id, ts) == <<"C", "A", "S", "O", "-">> \o ts

\* f"CASO-{caso.cliente_id}-{ts}"
CasoRef(cliente_id, ts) == <<"C", "A", "S", "O", "-">> \o IntStr(cliente_id) \o <<"-">> \o ts

\* f"REC-{pago.caso_id}-{ts}"
ReciboRef(caso_id, ts) == <<"R", "E", "C", "-">> \o IntStr(caso_id) \o <<"-">> \o ts

-----------------------------------------------------------------------------
(* Datetimes: ordering, and strptime(s, "%Y-%m-%d") *)

RECURSIVE LexLE(_, _)
LexLE(a, b) ==
    IF a = <<>> THEN TRUE
    ELSE IF Head(a) # Head(b) THEN Head(a) < Head(b)
    ELSE LexLE(Tail(a), Tail(b))

IsDigit(c) == \E d \in 0..9 : DigitChars[d + 1] = c

DigitVal(c) == CHOOSE d \in 0..9 : DigitChars[d + 1] = c

RECURSIVE StrInt(_)
StrInt(s) == IF s = <<>> THEN 0 ELSE 10 * StrInt(SubSeq(s, 1, Len(s) - 1)) + DigitVal(s[Len(s)])

AllDigits(s) == \A i \in 1..Len(s) : IsDigit(s[i])

IsLeap(y) == (y % 4 = 0 /\ y % 100 # 0) \/ y % 400 = 0

DaysInMonth(y, m) ==
    IF m = 2 THEN (IF IsLeap(y) THEN 29 ELSE 28)
    ELSE IF m \in {4, 6, 9, 11} THEN 30 ELSE 31

\* The three "-"-separated fields of s, or <<>> when s has not exactly two "-"
DateFields(s) ==
    LET dashes == {i \in 1..Len(s) : s[i] = "-"}
    IN  IF Cardinality(dashes) # 2 THEN <<>>
        ELSE LET i == CHOOSE k \in dashes : \A l \in dashes : k <= l
                 j == CHOOSE k \in dashes : \A l \in dashes : l <= k
             IN  <<SubSeq(s, 1, i - 1), SubSeq(s, i + 1, j - 1), SubSeq(s, j + 1, Len(s))>>

\* %Y is four digits, %m and %d one or two digits, day checked against the month
DateValid(s) ==
    LET f == DateFields(s)
    IN  /\ f # <<>>
        /\ Len(f[1]) = 4 /\ AllDigits(f[1])
        /\ Len(f[2]) \in {1, 2} /\ AllDigits(f[2]) /\ StrInt(f[2]) \in 1..12
        /\ Len(f[3]) \in {1, 2} /\ AllDigits(f[3])
        /\ StrInt(f[1]) >= 1
        /\ StrInt(f[3]) \in 1..DaysInMonth(StrInt(f[1]), StrInt(f[2]))

\* datetime.strptime(s, "%Y-%m-%d"): midnight of the parsed day
Strptime(s) ==
    LET f == DateFields(s)
    IN  <<StrInt(f[1]), StrInt(f[2]), StrInt(f[3]), 0, 0, 0, 0>>

-----------------------------------------------------------------------------
(* Bounds of the model *)

\* Rows written plus write requests in flight, concurrent specification
MaxRows == 4

\* Cases created in the case specification
MaxCasosSeq == 3

\* Payments registered in the payment specification
MaxPagosSeq == 2

-----------------------------------------------------------------------------
(* Wall clock: samples of instants, in increasing order *)

Reloj ==
    << <<2024, 1, 1, 0, 0, 0, 0>>,
       <<2024, 1, 31, 0, 0, 0, 0>>,
       <<2024, 1, 31, 15, 0, 0, 0>>,
       <<2024, 3, 5, 10, 0, 0, 0>>,
       <<2024, 3, 5, 10, 0, 0, 500000>> >>

RelojPagos == SubSeq(Reloj, 1, 4)

RelojCorto ==
    << <<2024, 3, 5, 10, 0, 0, 0>>,
       <<2024, 3, 5, 10, 0, 0, 500000>>,
       <<2024, 3, 5, 10, 0, 1, 0>> >>

-----------------------------------------------------------------------------
(* Record store: primary keys, unique columns, lookups *)

RECURSIVE MaxId(_)
MaxId(tbl) ==
    IF tbl = <<>> THEN 0
    ELSE LET m == MaxId(Tail(tbl)) IN IF Head(tbl).id > m THEN Head(tbl).id ELSE m

\* INTEGER PRIMARY KEY: the next rowid is one more than the largest in use
NextId(tbl) == MaxId(tbl) + 1

Rows(tbl) == {tbl[i] : i \in 1..Len(tbl)}

\* Variants without the unique index
EmailLibreSinIndice(email) == TRUE

ReciboLibreSinIndice(ref) == TRUE

\* Variants of the lookups that find a row for every id
ClienteExisteSiempre(id) == TRUE

CasoExisteSiempre(id) == TRUE

\* Column(String, unique=True): the INSERT is rejected when the value is taken
EmailLibre(email) == \A r \in Rows(clientes) : r.email # email

ReferenciaLibre(ref) == \A r \in Rows(casos) : r.referencia # ref

ReciboLibre(ref) == \A r \in Rows(pagos) : r.recibo_ref # ref

\* db.query(Cliente).filter(Cliente.id == id).first() is not None
ClienteExiste(id) == \E r \in Rows(clientes) : r.id = id

\* db.query(Caso).filter(Caso.id == id).first() is not None
CasoExiste(id) == \E r \in Rows(casos) : r.id = id

-----------------------------------------------------------------------------
(* Requests and responses *)

NoReq == [op |-> "none"]
NoResp == [op |-> "none", status |-> 0]

InFlight == Cardinality({p \in DOMAIN pc : pc[p] # "idle"})

\* Rows in the tables plus write requests under way
Load == Len(clientes) + Len(casos) + Len(pagos) + Len(documentos) + InFlight

\* pydantic keeps the declared fields of the body and drops the others
PagoCreate(body) == [caso_id |-> body.caso_id, monto |-> body.monto]

\* The clock advances to the next sampled instant
Tick(reloj) ==
    /\ \E i \in 1..(Len(reloj) - 1) : now = reloj[i] /\ now' = reloj[i + 1]
    /\ UNCHANGED <<db, storage, pc, req, resp>>

\* POST /api/clientes/ : db.add, db.commit, db.refresh
CrearCliente(p, lim, emails) ==
    /\ pc[p] = "idle"
    /\ Load < lim
    /\ \E email \in emails :
         IF EmailLibre(email)
         THEN LET row == [id |-> NextId(clientes), email |-> email]
              IN  /\ clientes' = Append(clientes, row)
                  /\ resp' = [op |-> "crear_cliente", status |-> 200, body |-> row]
         ELSE /\ clientes' = clientes
              /\ resp' = [op |-> "crear_cliente", status |-> 500, error |-> "IntegrityError"]
    /\ UNCHANGED <<casos, pagos, documentos, storage, now, pc, req>>

\* POST /api/casos/ : look the client up
CrearCasoQuery(p, lim, bodies) ==
    /\ pc[p] = "idle"
    /\ Load < lim
    /\ \E body \in bodies :
         IF ClienteExiste(body.cliente_id)
         THEN /\ pc' = [pc EXCEPT ![p] = "caso_ref"]
              /\ req' = [req EXCEPT ![p] = [op |-> "crear_caso", caso |-> body]]
              /\ resp' = resp
         ELSE /\ resp' = [op |-> "crear_caso", status |-> 404,
                          detail |-> "Cliente no encontrado"]
              /\ UNCHANGED <<pc, req>>
    /\ UNCHANGED <<db, storage, now>>

\* POST /api/casos/ : generate the reference when none was supplied
CrearCasoRef(p) ==
    /\ pc[p] = "caso_ref"
    /\ LET caso == req[p].caso
       IN  req' = [req EXCEPT ![p].caso.referencia =
                     IF caso.referencia = <<>>
                     THEN CasoRef(caso.cliente_id, Strftime(now))
                     ELSE caso.referencia]
    /\ pc' = [pc EXCEPT ![p] = "caso_commit"]
    /\ UNCHANGED <<db, storage, now, resp>>

\* POST /api/casos/ : db.add, db.commit, db.refresh
CrearCasoCommit(p) ==
    /\ pc[p] = "caso_commit"
    /\ LET caso == req[p].caso
           row == [id |-> NextId(casos), referencia |-> caso.referencia,
                   cliente_id |-> caso.cliente_id,
                   abogado_asignado |-> caso.abogado_asignado]
       IN  IF ReferenciaLibre(caso.referencia)
           THEN /\ casos' = Append(casos, row)
                /\ resp' = [op |-> "crear_caso", status |-> 200, body |-> row]
           ELSE /\ casos' = casos
                /\ resp' = [op |-> "crear_caso", status |-> 500, error |-> "IntegrityError"]
    /\ pc' = [pc EXCEPT ![p] = "idle"]
    /\ req' = [req EXCEPT ![p] = NoReq]
    /\ UNCHANGED <<clientes, pagos, documentos, storage, now>>

\* POST /api/pagos/ : look the case up
RegistrarPagoQuery(p, lim, bodies) ==
    /\ pc[p] = "idle"
    /\ Load < lim
    /\ \E body \in bodies :
         IF CasoExiste(body.caso_id)
         THEN /\ pc' = [pc EXCEPT ![p] = "pago_ref"]
              /\ req' = [req EXCEPT ![p] = [op |-> "registrar_pago", pago |-> PagoCreate(body)]]
              /\ resp' = resp
         ELSE /\ resp' = [op |-> "registrar_pago", status |-> 404,
                          detail |-> "Caso no encontrado"]
              /\ UNCHANGED <<pc, req>>
    /\ UNCHANGED <<db, storage, now>>

\* POST /api/pagos/ : generate the receipt reference
RegistrarPagoRef(p) ==
    /\ pc[p] = "pago_ref"
    /\ req' = [req EXCEPT ![p] = [op |-> "registrar_pago", pago |-> req[p].pago,
                                  recibo_ref |-> ReciboRef(req[p].pago.caso_id, Strftime(now))]]
    /\ pc' = [pc EXCEPT ![p] = "pago_commit"]
    /\ UNCHANGED <<db, storage, now, resp>>

\* POST /api/pagos/ : db.add, db.commit (fecha defaults to datetime.now), db.refresh
RegistrarPagoCommit(p) ==
    /\ pc[p] = "pago_commit"
    /\ LET pago == req[p].pago
           row == [id |-> NextId(pagos), caso_id |-> pago.caso_id, monto |-> pago.monto,
                   fecha |-> now, recibo_ref |-> req[p].recibo_ref]
       IN  IF ReciboLibre(req[p].recibo_ref)
           THEN /\ pagos' = Append(pagos, row)
                /\ resp' = [op |-> "registrar_pago", status |-> 200, body |-> row]
           ELSE /\ pagos' = pagos
                /\ resp' = [op |-> "registrar_pago", status |-> 500, error |-> "IntegrityError"]
    /\ pc' = [pc EXCEPT ![p] = "idle"]
    /\ req' = [req EXCEPT ![p] = NoReq]
    /\ UNCHANGED <<clientes, casos, documentos, storage, now>>

\* Variant that returns the id without storing anything under it
UploadFileSinGuardar(store, file_id) == store

\* S3Service.upload_file: self.storage[file_id] = {...}; the model keeps the keys
UploadFile(store, file_id) == store \cup {file_id}

\* POST /api/documentos/ : look the case up
SubirDocumentoQuery(p, lim, ids) ==
    /\ pc[p] = "idle"
    /\ Load < lim
    /\ \E caso_id \in ids :
         IF CasoExiste(caso_id)
         THEN /\ pc' = [pc EXCEPT ![p] = "doc_upload"]
              /\ req' = [req EXCEPT ![p] = [op |-> "subir_documento", caso_id |-> caso_id]]
              /\ resp' = resp
         ELSE /\ resp' = [op |-> "subir_documento", status |-> 404,
                          detail |-> "Caso no encontrado"]
              /\ UNCHANGED <<pc, req>>
    /\ UNCHANGED <<db, storage, now>>

\* POST /api/documentos/ : s3_service.upload_file under a uuid4 key
SubirDocumentoUpload(p, keys) ==
    /\ pc[p] = "doc_upload"
    /\ \E file_id \in keys :
         /\ storage' = UploadFile(storage, file_id)
         /\ req' = [req EXCEPT ![p] = [op |-> "subir_documento", caso_id |-> req[p].caso_id,
                                       s3_key |-> file_id]]
    /\ pc' = [pc EXCEPT ![p] = "doc_commit"]
    /\ UNCHANGED <<db, now, resp>>

\* POST /api/documentos/ : db.add, db.commit, db.refresh
SubirDocumentoCommit(p) ==
    /\ pc[p] = "doc_commit"
    /\ LET row == [id |-> NextId(documentos), caso_id |-> req[p].caso_id,
                   s3_key |-> req[p].s3_key]
       IN  /\ documentos' = Append(documentos, row)
           /\ resp' = [op |-> "subir_documento", status |-> 200, body |-> row]
    /\ pc' = [pc EXCEPT ![p] = "idle"]
    /\ req' = [req EXCEPT ![p] = NoReq]
    /\ UNCHANGED <<clientes, casos, pagos, storage, now>>

-----------------------------------------------------------------------------
(* Reports *)

\* Variant of the loop that records the lawyers without counting their cases
RECURSIVE ContarCasosSinSumar(_, _)
ContarCasosSinSumar(cs, resultado) ==
    IF cs = <<>> THEN resultado
    ELSE LET a == Head(cs).abogado_asignado
             r0 == IF a \notin DOMAIN resultado THEN resultado @@ (a :> 0) ELSE resultado
         IN  ContarCasosSinSumar(Tail(cs), [r0 EXCEPT ![a] = 1])

\* The loop of reporte_casos_por_abogado over the rows cs, from the dict resultado
RECURSIVE ContarCasos(_, _)
ContarCasos(cs, resultado) ==
    IF cs = <<>> THEN resultado
    ELSE LET a == Head(cs).abogado_asignado
             r0 == IF a \notin DOMAIN resultado THEN resultado @@ (a :> 0) ELSE resultado
         IN  ContarCasos(Tail(cs), [r0 EXCEPT ![a] = @ + 1])

\* sum(pago.monto for pago in pagos)
RECURSIVE SumMontos(_)
SumMontos(ps) == IF ps = <<>> THEN 0 ELSE Head(ps).monto + SumMontos(Tail(ps))

\* Variant whose upper bound is the end of the hasta day
EnPeriodoFinDeDia(fecha, fecha_desde, fecha_hasta) ==
    /\ LexLE(fecha_desde, fecha)
    /\ LexLE(fecha, <<fecha_hasta[1], fecha_hasta[2], fecha_hasta[3], 23, 59, 59, 999999>>)

\* Pago.fecha >= fecha_desde, Pago.fecha <= fecha_hasta
EnPeriodo(fecha, fecha_desde, fecha_hasta) == LexLE(fecha_desde, fecha) /\ LexLE(fecha, fecha_hasta)

\* GET /api/reportes/casos-por-abogado
ReporteCasosPorAbogado(p) ==
    /\ pc[p] = "idle"
    /\ resp' = [op |-> "reporte_casos_por_abogado", status |-> 200,
                body |-> ContarCasos(casos, <<>>)]
    /\ UNCHANGED <<db, storage, now, pc, req>>

\* GET /api/reportes/pagos-por-periodo
ReportePagosPorPeriodo(p, desdes, hastas) ==
    /\ pc[p] = "idle"
    /\ \E desde \in desdes, hasta \in hastas :
         IF DateValid(desde) /\ DateValid(hasta)
         THEN LET fecha_desde == Strptime(desde)
                  fecha_hasta == Strptime(hasta)
                  sel == SelectSeq(pagos, LAMBDA r : EnPeriodo(r.fecha, fecha_desde, fecha_hasta))
              IN  resp' = [op |-> "reporte_pagos_por_periodo", status |-> 200,
                           body |-> [periodo |-> [desde |-> desde, hasta |-> hasta],
                                     total_pagos |-> Len(sel),
                                     monto_total |-> SumMontos(sel),
                                     pagos |-> sel]]
         ELSE resp' = [op |-> "reporte_pagos_por_periodo", status |-> 400,
                       detail |-> "Formato de fecha invalido. Usar YYYY-MM-DD"]
    /\ UNCHANGED <<db, storage, now, pc, req>>

-----------------------------------------------------------------------------
(* Concurrent specification: two requests at a time on an empty database *)

Procs == {1, 2}
Emails == {"ana@x.pe", "luis@x.pe"}
Referencias == {<<>>, <<"E", "X", "P">>}
Montos == {-50, 100}
Keys == {"k1", "k2"}

CasoBodies == [referencia : Referencias, cliente_id : 1..MaxRows, abogado_asignado : {"A"}]

\* recibo_ref is a field PagoCreate does not declare; <<>> stands for "not sent"
PagoBodies == [caso_id : 1..MaxRows, monto : Montos, recibo_ref : {<<>>, <<"X">>}]

Init ==
    /\ clientes = <<>>
    /\ casos = <<>>
    /\ pagos = <<>>
    /\ documentos = <<>>
    /\ storage = {}
    /\ now = RelojCorto[1]
    /\ pc = [p \in Procs |-> "idle"]
    /\ req = [p \in Procs |-> NoReq]
    /\ resp = NoResp

Next ==
    \/ Tick(RelojCorto)
    \/ \E p \in Procs : CrearCliente(p, MaxRows, Emails)
    \/ \E p \in Procs : CrearCasoQuery(p, MaxRows, CasoBodies)
    \/ \E p \in Procs : CrearCasoRef(p)
    \/ \E p \in Procs : CrearCasoCommit(p)
    \/ \E p \in Procs : RegistrarPagoQuery(p, MaxRows, PagoBodies)
    \/ \E p \in Procs : RegistrarPagoRef(p)
    \/ \E p \in Procs : RegistrarPagoCommit(p)
    \/ \E p \in Procs : SubirDocumentoQuery(p, MaxRows, 1..MaxRows)
    \/ \E p \in Procs : SubirDocumentoUpload(p, Keys)
    \/ \E p \in Procs : SubirDocumentoCommit(p)

Spec == Init /\ [][Next]_vars

-----------------------------------------------------------------------------
(* Properties of the concurrent specification *)

Last(seq) == seq[Len(seq)]

EmailTomado(e) == \E i \in 1..Len(clientes) : clientes[i].email = e

\* C1: a crear_cliente request whose email is already persisted fails with the
\* store's integrity error and persists nothing (a request with a new email adds
\* one row), and in every state no two Client rows share an email.
C1_EmailUnico ==
    /\ [](\A i, j \in 1..Len(clientes) : clientes[i].email = clientes[j].email => i = j)
    /\ [][(resp' # resp /\ resp'.op = "crear_cliente") =>
          \A p \in Procs, e \in Emails :
            CrearCliente(p, MaxRows, {e}) =>
              IF EmailTomado(e)
              THEN /\ clientes' = clientes
                   /\ resp'.status = 500 /\ resp'.error = "IntegrityError"
              ELSE /\ Len(clientes') = Len(clientes) + 1
                   /\ Last(clientes').email = e
                   /\ resp'.status = 200]_vars

\* Two creations with the same email: the second was rejected, one row exists
C1_Witness ==
    /\ resp.op = "crear_cliente" /\ resp.status = 500
    /\ Len(clientes) = 1

\* C2: crear_caso with an unknown cliente_id, registrar_pago and subir_documento
\* with an unknown caso_id answer 404, end the request, and change neither the
\* tables nor the blob store.
C2_PadreDesconocido ==
    [][\A p \in Procs :
         (pc[p] = "idle" /\ (pc'[p] # "idle" \/ (resp' # resp /\ pc' = pc))) =>
           \A k \in 1..MaxRows :
             /\ (/\ pc'[p] = "caso_ref" \/ resp'.op = "crear_caso"
                 /\ \A i \in 1..Len(clientes) : clientes[i].id # k
                 /\ CrearCasoQuery(p, MaxRows, {b \in CasoBodies : b.cliente_id = k}))
                => (resp'.op = "crear_caso" /\ resp'.status = 404 /\ pc'[p] = "idle"
                    /\ UNCHANGED <<db, storage>>)
             /\ (/\ pc'[p] = "pago_ref" \/ resp'.op = "registrar_pago"
                 /\ \A i \in 1..Len(casos) : casos[i].id # k
                 /\ RegistrarPagoQuery(p, MaxRows, {b \in PagoBodies : b.caso_id = k}))
                => (resp'.op = "registrar_pago" /\ resp'.status = 404 /\ pc'[p] = "idle"
                    /\ UNCHANGED <<db, storage>>)
             /\ (/\ pc'[p] = "doc_upload" \/ resp'.op = "subir_documento"
                 /\ \A i \in 1..Len(casos) : casos[i].id # k
                 /\ SubirDocumentoQuery(p, MaxRows, {k}))
                => (resp'.op = "subir_documento" /\ resp'.status = 404 /\ pc'[p] = "idle"
                    /\ UNCHANGED <<db, storage>>)]_vars

\* An upload for an unknown case was refused while a client and a case exist
C2_Witness ==
    /\ resp.op = "subir_documento" /\ resp.status = 404
    /\ Len(clientes) > 0 /\ Len(casos) > 0
    /\ documentos = <<>> /\ storage = {}

\* C3: every Case row names a persisted Client, every Payment and Document row
\* names a persisted Case.
C3_IntegridadReferencial ==
    /\ \A i \in 1..Len(casos) :
         \E j \in 1..Len(clientes) : clientes[j].id = casos[i].cliente_id
    /\ \A i \in 1..Len(pagos) :
         \E j \in 1..Len(casos) : casos[j].id = pagos[i].caso_id
    /\ \A i \in 1..Len(documentos) :
         \E j \in 1..Len(casos) : casos[j].id = documentos[i].caso_id

C3_Witness == Len(casos) > 0 /\ Len(pagos) > 0 /\ Len(documentos) > 0

C5_ReferenciasUnicas ==
    /\ [](/\ \A i, j \in 1..Len(casos) : casos[i].referencia = casos[j].referencia => i = j
          /\ \A i, j \in 1..Len(pagos) : pagos[i].recibo_ref = pagos[j].recibo_ref => i = j)
    /\ [][\A p \in Procs :
            /\ (pc[p] = "caso_commit" /\ CrearCasoCommit(p)) =>
                 IF \E i \in 1..Len(casos) : casos[i].referencia = req[p].caso.referencia
                 THEN casos' = casos /\ resp'.status = 500 /\ resp'.error = "IntegrityError"
                 ELSE Len(casos') = Len(casos) + 1 /\ resp'.status = 200
            /\ (pc[p] = "pago_commit" /\ RegistrarPagoCommit(p)) =>
                 IF \E i \in 1..Len(pagos) : pagos[i].recibo_ref = req[p].recibo_ref
                 THEN pagos' = pagos /\ resp'.status = 500 /\ resp'.error = "IntegrityError"
                 ELSE Len(pagos') = Len(pagos) + 1 /\ resp'.status = 200]_vars

\* Two payments for one case in the same second: one row, the other rejected
C5_Witness ==
    /\ resp.op = "registrar_pago" /\ resp.status = 500
    /\ Len(pagos) = 1

\* C9: no Payment row has a negative amount.
C9_MontoNoNegativo == \A i \in 1..Len(pagos) : pagos[i].monto >= 0

-----------------------------------------------------------------------------
(* Sequential specifications: one request at a time, on a database file that *)
(* already holds rows written by earlier runs of the service                 *)

ClientesPrevios ==
    << [id |-> 1, email |-> "c1@x.pe"],
       [id |-> 2, email |-> "c2@x.pe"],
       [id |-> 3, email |-> "c3@x.pe"],
       [id |-> 4, email |-> "c4@x.pe"],
       [id |-> 5, email |-> "c5@x.pe"],
       [id |-> 6, email |-> "c6@x.pe"],
       [id |-> 7, email |-> "c7@x.pe"],
       [id |-> 8, email |-> "c8@x.pe"],
       [id |-> 9, email |-> "c9@x.pe"],
       [id |-> 10, email |-> "c10@x.pe"],
       [id |-> 11, email |-> "c11@x.pe"],
       [id |-> 12, email |-> "c12@x.pe"] >>

CasosPrevios ==
    << [id |-> 1, referencia |-> <<"E", "X", "P", "1">>, cliente_id |-> 1,
        abogado_asignado |-> "A"],
       [id |-> 2, referencia |-> <<"E", "X", "P", "2">>, cliente_id |-> 7,
        abogado_asignado |-> "A"],
       [id |-> 3, referencia |-> <<"E", "X", "P", "3">>, cliente_id |-> 7,
        abogado_asignado |-> "B"] >>

(* Cases and the report per lawyer *)

CasoBodiesSeq ==
    [referencia : Referencias, cliente_id : {7, 12, 13}, abogado_asignado : {"", "A", "B"}]

InitCasos ==
    /\ clientes = ClientesPrevios
    /\ casos = <<>>
    /\ pagos = <<>>
    /\ documentos = <<>>
    /\ storage = {}
    /\ now = RelojCorto[1]
    /\ pc = [p \in {1} |-> "idle"]
    /\ req = [p \in {1} |-> NoReq]
    /\ resp = NoResp

NextCasos ==
    \/ Tick(RelojCorto)
    \/ CrearCasoQuery(1, Len(ClientesPrevios) + MaxCasosSeq, CasoBodiesSeq)
    \/ CrearCasoRef(1)
    \/ CrearCasoCommit(1)
    \/ ReporteCasosPorAbogado(1)

SpecCasos == InitCasos /\ [][NextCasos]_vars


\* The decimal digits of n >= 0, most significant first, by place value
Cifras(n) ==
    LET w == CHOOSE k \in 1..10 : (k = 10 \/ n < 10^k) /\ (k = 1 \/ n >= 10^(k - 1))
    IN  [i \in 1..w |-> DigitChars[((n \div 10^(w - i)) % 10) + 1]]

\* The two digits of n < 100
Dos(n) == <<DigitChars[(n \div 10) + 1], DigitChars[(n % 10) + 1]>>

\* YYYYMMDDHHMMSS of the instant t, for a four-digit year
Sello(t) == Cifras(t[1]) \o Dos(t[2]) \o Dos(t[3]) \o Dos(t[4]) \o Dos(t[5]) \o Dos(t[6])

\* C6: crear_caso with an empty reference for client c at instant t persists the
\* reference CASO-{c}-{t as YYYYMMDDHHMMSS} (client 7 at 2024-03-05 10:00:00 gives
\* CASO-7-20240305100000); a supplied reference is stored unchanged.
C6_ReferenciaDeCaso ==
    [][/\ (pc[1] = "caso_ref" /\ CrearCasoRef(1)) =>
            LET caso == req[1].caso
                ref == req'[1].caso.referencia
            IN  /\ caso.referencia = <<>> =>
                     ref = <<"C", "A", "S", "O", "-">> \o Cifras(caso.cliente_id)
                             \o <<"-">> \o Sello(now)
                /\ (caso.referencia = <<>> /\ caso.cliente_id = 7
                      /\ now = <<2024, 3, 5, 10, 0, 0, 0>>) =>
                     ref = <<"C", "A", "S", "O", "-", "7", "-", "2", "0", "2", "4",
                             "0", "3", "0", "5", "1", "0", "0", "0", "0", "0">>
                /\ caso.referencia # <<>> => ref = caso.referencia
       /\ (pc[1] = "caso_commit" /\ resp'.status = 200 /\ CrearCasoCommit(1)) =>
            /\ casos' = Append(casos, Last(casos'))
            /\ Last(casos').referencia = req[1].caso.referencia
            /\ Last(casos').cliente_id = req[1].caso.cliente_id]_vars

\* Client 7's generated reference and a supplied reference are both persisted
C6_Witness ==
    /\ \E i \in 1..Len(casos) :
         /\ casos[i].cliente_id = 7
         /\ casos[i].referencia =
              <<"C", "A", "S", "O", "-", "7", "-", "2", "0", "2", "4",
                "0", "3", "0", "5", "1", "0", "0", "0", "0", "0">>
    /\ \E i \in 1..Len(casos) : casos[i].referencia = <<"E", "X", "P">>

NumCasosDe(a) == Cardinality({i \in 1..Len(casos) : casos[i].abogado_asignado = a})

\* C10: reporte_casos_por_abogado maps exactly the abogado_asignado values of the
\* Case rows (the empty string included) each to its number of rows; the mapping
\* is empty without cases and {A: 2, B: 1} for the lawyers [A, A, B].
C10_CasosPorAbogado ==
    [][(resp' # resp /\ resp'.op = "reporte_casos_por_abogado" /\ ReporteCasosPorAbogado(1)) =>
         LET m == resp'.body
         IN  /\ resp'.status = 200
             /\ DOMAIN m = {casos[i].abogado_asignado : i \in 1..Len(casos)}
             /\ \A a \in DOMAIN m : m[a] = NumCasosDe(a)
             /\ casos = <<>> => DOMAIN m = {}
             /\ [i \in 1..Len(casos) |-> casos[i].abogado_asignado] = <<"A", "A", "B">>
                  => m = [a \in {"A", "B"} |-> IF a = "A" THEN 2 ELSE 1]]_vars

\* The report over the lawyers [A, A, B]
C10_Witness ==
    /\ resp.op = "reporte_casos_por_abogado"
    /\ [i \in 1..Len(casos) |-> casos[i].abogado_asignado] = <<"A", "A", "B">>
    /\ DOMAIN resp.body = {"A", "B"} /\ resp.body["A"] = 2 /\ resp.body["B"] = 1

(* Payments and the report per period *)

PagoBodiesSeq == [caso_id : {3, 4}, monto : Montos, recibo_ref : {<<>>, <<"X">>}]

Fechas ==
    { <<"2", "0", "2", "4", "-", "0", "1", "-", "0", "1">>,
      <<"2", "0", "2", "4", "-", "0", "1", "-", "3", "1">>,
      <<"2", "0", "2", "4", "-", "3", "-", "5">>,
      <<"2", "0", "2", "4", "-", "0", "2", "-", "3", "0">> }

InitPagos ==
    /\ clientes = ClientesPrevios
    /\ casos = CasosPrevios
    /\ pagos = <<>>
    /\ documentos = <<>>
    /\ storage = {}
    /\ now = RelojPagos[1]
    /\ pc = [p \in {1} |-> "idle"]
    /\ req = [p \in {1} |-> NoReq]
    /\ resp = NoResp

NextPagos ==
    \/ Tick(RelojPagos)
    \/ RegistrarPagoQuery(1, Len(ClientesPrevios) + Len(CasosPrevios) + MaxPagosSeq, PagoBodiesSeq)
    \/ RegistrarPagoRef(1)
    \/ RegistrarPagoCommit(1)
    \/ ReportePagosPorPeriodo(1, Fechas, Fechas)

SpecPagos == InitPagos /\ [][NextPagos]_vars

\* C7: registrar_pago for case k at instant t persists the receipt reference
\* REC-{k}-{t as YYYYMMDDHHMMSS} (case 3 at 2024-03-05 10:00:00 gives
\* REC-3-20240305100000), whatever receipt value the caller sent.
C7_ReciboGenerado ==
    [][/\ (pc[1] = "idle" /\ pc'[1] = "pago_ref") =>
            \A b \in PagoBodiesSeq :
              RegistrarPagoQuery(1, Len(ClientesPrevios) + Len(CasosPrevios) + MaxPagosSeq, {b})
              => req'[1] = [op |-> "registrar_pago",
                          pago |-> [caso_id |-> b.caso_id, monto |-> b.monto]]
       /\ (pc[1] = "pago_ref" /\ RegistrarPagoRef(1)) =>
            LET k == req[1].pago.caso_id
                ref == req'[1].recibo_ref
            IN  /\ ref = <<"R", "E", "C", "-">> \o Cifras(k) \o <<"-">> \o Sello(now)
                /\ (k = 3 /\ now = <<2024, 3, 5, 10, 0, 0, 0>>) =>
                     ref = <<"R", "E", "C", "-", "3", "-", "2", "0", "2", "4",
                             "0", "3", "0", "5", "1", "0", "0", "0", "0", "0">>
       /\ (pc[1] = "pago_commit" /\ resp'.status = 200 /\ RegistrarPagoCommit(1)) =>
            /\ pagos' = Append(pagos, Last(pagos'))
            /\ Last(pagos').recibo_ref = req[1].recibo_ref
            /\ Last(pagos').caso_id = req[1].pago.caso_id]_vars

\* The receipt of a payment for case 3 made at 2024-03-05 10:00:00
C7_Witness ==
    \E i \in 1..Len(pagos) :
      /\ pagos[i].caso_id = 3
      /\ pagos[i].fecha = <<2024, 3, 5, 10, 0, 0, 0>>
      /\ pagos[i].recibo_ref =
           <<"R", "E", "C", "-", "3", "-", "2", "0", "2", "4",
             "0", "3", "0", "5", "1", "0", "0", "0", "0", "0">>

\* The calendar day each request date of Fechas stands for, <<>> when it is none
DiaDe(s) ==
    IF s = <<"2", "0", "2", "4", "-", "0", "1", "-", "0", "1">> THEN <<2024, 1, 1>>
    ELSE IF s = <<"2", "0", "2", "4", "-", "0", "1", "-", "3", "1">> THEN <<2024, 1, 31>>
    ELSE IF s = <<"2", "0", "2", "4", "-", "3", "-", "5">> THEN <<2024, 3, 5>>
    ELSE <<>>

NumDia(d) == d[1] * 10000 + d[2] * 100 + d[3]

\* fecha lies in [desde 00:00:00, hasta 00:00:00]
EnRango(fecha, desde, hasta) ==
    /\ NumDia(fecha) >= NumDia(desde)
    /\ \/ NumDia(fecha) < NumDia(hasta)
       \/ NumDia(fecha) = NumDia(hasta) /\ SubSeq(fecha, 4, 7) = <<0, 0, 0, 0>>

RECURSIVE SumaDe(_, _)
SumaDe(seq, I) ==
    IF I = {} THEN 0
    ELSE LET i == CHOOSE k \in I : TRUE IN seq[i].monto + SumaDe(seq, I \ {i})

\* C8: for valid dates, reporte_pagos_por_periodo returns exactly the Payment rows
\* whose fecha lies in [desde 00:00:00, hasta 00:00:00], in table order, with
\* total_pagos their number and monto_total the sum of their amounts (0 for none).
C8_PagosPorPeriodo ==
    [][(resp' # resp /\ resp'.op = "reporte_pagos_por_periodo") =>
         /\ \A d, h \in Fechas :
              (resp'.status # 200 /\ DiaDe(d) # <<>> /\ DiaDe(h) # <<>>)
              => ~ReportePagosPorPeriodo(1, {d}, {h})
         /\ resp'.status = 200 =>
              LET r == resp'.body
                  d == r.periodo.desde
                  h == r.periodo.hasta
                  I == {i \in 1..Len(pagos) : EnRango(pagos[i].fecha, DiaDe(d), DiaDe(h))}
              IN  ReportePagosPorPeriodo(1, {d}, {h}) =>
                    /\ DiaDe(d) # <<>> /\ DiaDe(h) # <<>>
                    /\ Len(r.pagos) = Cardinality(I)
                    /\ \A i \in I : \E j \in 1..Len(r.pagos) : r.pagos[j] = pagos[i]
                    /\ \A j \in 1..Len(r.pagos) : \E i \in I : r.pagos[j] = pagos[i]
                    /\ r.total_pagos = Cardinality(I)
                    /\ r.monto_total = SumaDe(pagos, I)
                    /\ I = {} => r.monto_total = 0]_vars

\* A report up to 2024-01-31 that includes the payment made at 00:00:00 of that
\* day and excludes the one made at 15:00:00
C8_Witness ==
    /\ resp.op = "reporte_pagos_por_periodo" /\ resp.status = 200
    /\ resp.body.periodo.hasta = <<"2", "0", "2", "4", "-", "0", "1", "-", "3", "1">>
    /\ Len(pagos) = 2
    /\ pagos[1].fecha = <<2024, 1, 31, 0, 0, 0, 0>>
    /\ pagos[2].fecha = <<2024, 1, 31, 15, 0, 0, 0>>
    /\ resp.body.pagos = <<pagos[1]>>
    /\ resp.body.total_pagos = 1
    /\ resp.body.monto_total = pagos[1].monto


====
